---- MODULE Spec2Model ----
(***************************************************************************)
(* The array-based bounding volume hierarchy of spindex:                   *)
(*   envelope.py  AAMBRVect  (axis-aligned minimum bounding rectangles)    *)
(*   str.py       sort_tile_recurse  (Sort-Tile-Recurse packing)           *)
(*   tree.py      BVH.search / BVH.query / BVH.nearest                     *)
(*                                                                         *)
(* Conventions.  Index VALUES are 0-based as in the source; a TLA+         *)
(* sequence is 1-based, so element i of an array a is a[i+1].  Coordinates *)
(* are integers.  Distances are kept SQUARED (the source takes             *)
(* numpy.sqrt, which is monotone and exact enough on these small integers  *)
(* that every comparison of two distances is the comparison of their       *)
(* squares).  centers is kept DOUBLED (mins + maxs instead of              *)
(* 0.5 * (mins + maxs)); it is only ever sorted.                            *)
(***************************************************************************)
EXTENDS Integers, Sequences, FiniteSets, TLC

VARIABLES
    egeoms,         \* sort_tile_recurse argument: the leaf envelopes (AAMBRVect)
    page_size,      \* sort_tile_recurse argument
    max_top_size,   \* sort_tile_recurse argument
    envel,          \* sort_tile_recurse local: levels' envelopes, leaves first
    children,       \* sort_tile_recurse local: levels' children tables, leaves first
    bvh,            \* the BVH object: [envelopes, children], top level first
    obj,            \* search argument: the query envelopes
    predicate,      \* "nearest", or the predicate name given to BVH.query
    knn,            \* BVH.nearest argument
    sparse,         \* search argument
    paths,          \* BVH.search local
    next_paths,     \* BVH.search local
    empty_paths,    \* BVH.search local
    level,          \* position of the zip(self.envelopes, self.children) loop (1-based)
    cursor,         \* position of the "for path in paths" loop (1-based)
    bounds,         \* BVH.nearest local _bounds (squared), one row per query
    result,         \* what search returned (full form), or <<>>
    err,            \* the exception raised, or "none"
    pc,             \* "start" | "build" | "ready" | "search" | "done" | "error"
                    \* | "envelope" | "joined" | "candidates" | "neighbours"
    \* envelope.py: one pairwise operation of two AAMBRVects
    lhs,            \* self
    rhs,            \* other
    op,             \* the method called, or "none"
    out,            \* the array it returned, or <<>>
    merge_indexes,  \* mergeby argument: the masked index matrix
    \* core/spatial_joins.py: nearest(geom, right, right_sindex, n_neighbours)
    right,          \* the right geometries: their bounds and their distance to geom
    geom,           \* the bounds of the query geometry
    n_neighbours,   \* argument of nearest
    sindex,         \* the BoundingGeometryTree of right
    nodes_ref,      \* ApproxNearest.visit local
    nodes_heap,     \* ApproxNearest.visit local (the set of its entries)
    heap,           \* nearest local (the set of its entries)
    neighbours,     \* what nearest returned, or <<>>
    \* core/spatial_joins.py: max_intersection(geom, right, right_sindex)
    geom_type,      \* geom.type, or "none"
    node_stack,     \* Intersection.visit local
    measures,       \* max_intersection local
    matches         \* what max_intersection returned, or <<>>

vars == <<egeoms, page_size, max_top_size, envel, children, bvh, obj, predicate,
          knn, sparse, paths, next_paths, empty_paths, level, cursor, bounds,
          result, err, pc, lhs, rhs, op, out, merge_indexes, right, geom,
          n_neighbours, sindex, nodes_ref, nodes_heap, heap, neighbours,
          geom_type, node_stack, measures, matches>>

buildVars == <<egeoms, page_size, max_top_size, envel, children>>
searchVars == <<obj, predicate, knn, sparse, paths, next_paths, empty_paths,
                level, cursor, bounds, result>>
envVars == <<lhs, rhs, op, out, merge_indexes>>
joinVars == <<geom_type, node_stack, measures, matches>>
coreVars == <<right, geom, n_neighbours, sindex, nodes_ref, nodes_heap, heap,
              neighbours, joinVars>>

----------------------------------------------------------------------------
(* Bounds of the model *)

\* Largest number of leaf envelopes in the search specification (Spec).
MaxN == 3
\* Largest number of leaf envelopes in the packing specification (SpecBuild).
MaxBuildN == 5
\* Largest number of query envelopes in one search.
MaxM == 2
\* Largest number of envelopes in an AAMBRVect an envelope operation is
\* called with (SpecEnvelope).
MaxRows == 2
\* Largest number of leaf envelopes in the depth specification (SpecDepth).
MaxDepthN == 8
\* Largest number of columns of an index matrix mergeby is called with
\* (SpecMerge).
MaxCols == 2
\* Largest number of right geometries of a nearest join (SpecCore).
MaxRight == 3
\* Largest number of levels the packing loop is followed to (a loop that
\* does not shrink its level has no end).
MaxLevels == 5
\* numpy.inf, the fill value of _bounds: larger than any squared distance here.
Inf == 1000000

----------------------------------------------------------------------------
(* Generic helpers *)

SetMin(S) == CHOOSE x \in S : \A y \in S : x <= y
SetMax(S) == CHOOSE x \in S : \A y \in S : x >= y
Max3(a, b, c) == SetMax({a, b, c})
Abs(x) == IF x < 0 THEN -x ELSE x
Sq(x) == x * x
Range(s) == {s[i] : i \in 1..Len(s)}

RECURSIVE Pow(_, _)
Pow(b, e) == IF e = 0 THEN 1 ELSE b * Pow(b, e - 1)

RECURSIVE SumSeq(_)
SumSeq(s) == IF s = <<>> THEN 0 ELSE Head(s) + SumSeq(Tail(s))

RECURSIVE Flatten(_)
Flatten(ss) == IF ss = <<>> THEN <<>> ELSE Head(ss) \o Flatten(Tail(ss))

Reverse(s) == [i \in 1..Len(s) |-> s[Len(s) + 1 - i]]

\* A numpy array is a value, computed once: array(s) is s as an explicit
\* tuple (and matrix(m) a tuple of tuples) rather than a rule evaluated
\* again at every access.
array(s) == s \o <<>>
matrix(m) == [i \in 1..Len(m) |-> array(m[i])] \o <<>>

\* All sequences whose i-th element is drawn from sets[i].
RECURSIVE SeqProduct(_)
SeqProduct(sets) ==
    IF sets = <<>> THEN {<<>>}
    ELSE {<<h>> \o t : h \in Head(sets), t \in SeqProduct(Tail(sets))}

\* All sequences of length 0..n over S.
SeqsUpTo(S, n) == UNION {[1..k -> S] : k \in 0..n}

----------------------------------------------------------------------------
(* numpy primitives *)

\* numpy.argsort(xs), default kind (quicksort): an order of 0..len-1 that sorts
\* xs.  The default kind is not stable, so the order among equal keys is
\* whatever the build produces: every order that sorts xs is possible.
RECURSIVE SortedOrders(_, _)
SortedOrders(S, xs) ==
    IF S = {} THEN {<<>>}
    ELSE LET m == SetMin({xs[i + 1] : i \in S})
         IN  UNION {{<<i>> \o t : t \in SortedOrders(S \ {i}, xs)} :
                      i \in {j \in S : xs[j + 1] = m}}

argsort(xs) == SortedOrders(0..(Len(xs) - 1), xs)

\* numpy.sort of a 1-d array of numbers (the values, so no choice is visible).
RECURSIVE sort(_)
sort(xs) ==
    IF xs = <<>> THEN <<>>
    ELSE LET m == SetMin(Range(xs))
             i == CHOOSE j \in 1..Len(xs) : xs[j] = m
         IN  <<m>> \o sort(SubSeq(xs, 1, i - 1) \o SubSeq(xs, i + 1, Len(xs)))

\* A cell of a numpy.ma masked integer array: data v, mask bit m.
Cell(x) == [v |-> x, m |-> FALSE]
MaskedCell(fill) == [v |-> fill, m |-> TRUE]

\* MaskedArray.compressed() of one row: the data of the unmasked cells.
RECURSIVE compressed(_)
compressed(row) ==
    IF row = <<>> THEN <<>>
    ELSE (IF Head(row).m THEN <<>> ELSE <<Head(row).v>>) \o compressed(Tail(row))

\* MaskedArray.count() of one row.
count(row) == Len(compressed(row))

\* arr.reshape(rows, cols) of a row-major array given flat.
reshape(flat, rows, cols) ==
    [i \in 1..rows |-> [j \in 1..cols |-> flat[(i - 1) * cols + j]]]

----------------------------------------------------------------------------
(* envelope.py: AAMBRVect.  An envelope is [mins, maxs], two D-tuples; an    *)
(* AAMBRVect is a sequence of envelopes.                                     *)

Envelope(mn, mx) == [mins |-> mn, maxs |-> mx]

ndims(e) == Len(e.mins)

\* AAMBRVect.__getitem__ with an integer index array.
getitem(vect, idx) == array([j \in 1..Len(idx) |-> vect[idx[j] + 1]])

\* AAMBRVect.centers of one envelope, doubled.
centers(e) == [d \in 1..ndims(e) |-> e.mins[d] + e.maxs[d]]

\* AAMBRVect._intersects_by_dims for one pair: one boolean per dimension.
_intersects_by_dims(a, b) ==
    [d \in 1..ndims(a) |-> (a.mins[d] < b.maxs[d]) /\ (a.maxs[d] > b.mins[d])]

\* AAMBRVect.intersects: the M x K boolean matrix.
intersects(self, other) ==
    matrix([m \in 1..Len(self) |-> [k \in 1..Len(other) |->
        \A d \in 1..ndims(self[m]) : _intersects_by_dims(self[m], other[k])[d]]])

\* the two gaps of a dimension kept with their signs.
_dist_by_dims_signed(a, b) ==
    [d \in 1..ndims(a) |-> <<a.mins[d] - b.maxs[d], a.maxs[d] - b.mins[d]>>]

\* AAMBRVect._dist_by_dims for one pair: per dimension the two absolute gaps.
_dist_by_dims(a, b) ==
    [d \in 1..ndims(a) |-> <<Abs(a.mins[d] - b.maxs[d]), Abs(a.maxs[d] - b.mins[d])>>]

\* distance taking the larger of the two gaps of a dimension.
DistancePairFar(a, b) ==
    SumSeq([d \in 1..ndims(a) |->
        IF _intersects_by_dims(a, b)[d] THEN 0
        ELSE Sq(SetMax(Range(_dist_by_dims(a, b)[d])))])

\* AAMBRVect.distance for one pair (squared): MINDIST.
DistancePair(a, b) ==
    LET dist == [d \in 1..ndims(a) |->
                    IF _intersects_by_dims(a, b)[d] THEN 0
                    ELSE SetMin(Range(_dist_by_dims(a, b)[d]))]
    IN  SumSeq([d \in 1..ndims(a) |-> Sq(dist[d])])

distance(self, other) ==
    matrix([m \in 1..Len(self) |-> [k \in 1..Len(other) |->
        DistancePair(self[m], other[k])]])

\* boundary whose lower faces are written like the upper ones.
boundary_upper_only(e) ==
    LET D == ndims(e)
    IN  array([f \in 1..(2 * D) |->
            LET g == IF f <= D THEN f ELSE f - D
            IN  Envelope([e.mins EXCEPT ![g] = e.maxs[g]], e.maxs)])

\* AAMBRVect.boundary of one envelope: its 2D faces, each an envelope; face f
\* (f <= D) is the lower face of dimension f, face D+f the upper one.
boundary(e) ==
    LET D == ndims(e)
    IN  array([f \in 1..(2 * D) |->
            IF f <= D
            THEN Envelope(e.mins, [e.maxs EXCEPT ![f] = e.mins[f]])
            ELSE Envelope([e.mins EXCEPT ![f - D] = e.maxs[f - D]], e.maxs)])

\* AAMBRVect.maxmindist for one pair (squared): over every pair of faces the
\* largest distance between the two faces, and the least of those.
MaxMinDistPair(a, b) ==
    LET nd == IF ndims(a) >= ndims(b) THEN ndims(a) ELSE ndims(b)
        \* numpy broadcasting: an axis of length 1 is repeated
        at(x, d) == IF Len(x) = 1 THEN x[1] ELSE x[d]
        far(l, r) == SumSeq([d \in 1..nd |->
                        SetMax({Sq(at(l.mins, d) - at(r.maxs, d)),
                                Sq(at(l.maxs, d) - at(r.mins, d))})])
    IN  SetMin({far(left_face, right_face) : left_face \in Range(boundary(a)),
                                             right_face \in Range(boundary(b))})

maxmindist(self, other) ==
    matrix([m \in 1..Len(self) |-> [k \in 1..Len(other) |->
        MaxMinDistPair(self[m], other[k])]])

\* What the subtraction of the two boundary arrays raises: their last axes
\* (ndims) must be equal or one of them 1.
broadcast_error(self, other) ==
    IF ndims(self[1]) = ndims(other[1]) \/ ndims(self[1]) = 1 \/ ndims(other[1]) = 1
    THEN "none"
    ELSE "ValueError: operands could not be broadcast together"

\* AAMBRVect.check_dims: what it raises.
check_dims(self, other) ==
    IF ndims(self[1]) # ndims(other[1])
    THEN "ValueError: Incompatible number of dimensions"
    ELSE "none"

\* AAMBRVect.maxdist for one pair (squared): MAXDIST.
MaxDistPair(a, b) ==
    SumSeq([d \in 1..ndims(a) |-> Sq(SetMax(Range(_dist_by_dims(a, b)[d])))])

maxdist(self, other) ==
    matrix([m \in 1..Len(self) |-> [k \in 1..Len(other) |->
        MaxDistPair(self[m], other[k])]])

\* bound_dist that leaves the gaps of the overlapping dimensions in mindist.
BoundDistPairNoReset(a, b) ==
    LET dist == _dist_by_dims(a, b)
    IN  <<SumSeq([d \in 1..ndims(a) |-> Sq(SetMin(Range(dist[d])))]),
          SumSeq([d \in 1..ndims(a) |-> Sq(SetMax(Range(dist[d])))])>>

\* AAMBRVect.bound_dist for one pair (squared): from one _dist_by_dims, the
\* least gaps (reset to 0 where the dimension overlaps) and the largest.
BoundDistPair(a, b) ==
    LET dist == _dist_by_dims(a, b)
        mindist == [d \in 1..ndims(a) |->
                       IF _intersects_by_dims(a, b)[d] THEN 0
                       ELSE SetMin(Range(dist[d]))]
    IN  <<SumSeq([d \in 1..ndims(a) |-> Sq(mindist[d])]),
          SumSeq([d \in 1..ndims(a) |-> Sq(SetMax(Range(dist[d])))])>>

\* AAMBRVect.bound_dist: the pair of M x K matrices it returns.
bound_dist(self, other) ==
    <<matrix([m \in 1..Len(self) |-> [k \in 1..Len(other) |->
          BoundDistPair(self[m], other[k])[1]]]),
      matrix([m \in 1..Len(self) |-> [k \in 1..Len(other) |->
          BoundDistPair(self[m], other[k])[2]]])>>

\* mergeby that takes the first child of a row for the whole row.
mergeby_first(self, indexes) ==
    [i \in 1..Len(indexes) |-> self[compressed(indexes[i])[1] + 1]]

\* AAMBRVect.mergeby: one envelope per row of the masked index matrix, the
\* componentwise min of mins and max of maxs over the row's unmasked cells.
mergeby(self, indexes) ==
    [i \in 1..Len(indexes) |->
        LET row == compressed(indexes[i])
            D == ndims(self[1])
        IN  Envelope(
              [d \in 1..D |-> SetMin({self[row[j] + 1].mins[d] : j \in 1..Len(row)})],
              [d \in 1..D |-> SetMax({self[row[j] + 1].maxs[d] : j \in 1..Len(row)})])]

----------------------------------------------------------------------------
(* str.py: Sort-Tile-Recurse packing *)

\* _concat: the arrays of gen (given flat, row-major) are reshaped to their
\* shapes and stacked; cells right of an array's width stay masked, with
\* data fill_value.  A masked matrix is a sequence of rows of cells.
_concat(gen, shapes, fill_value) ==
    LET width == SetMax({shapes[k][2] : k \in 1..Len(shapes)})
        block(k) ==
            LET arr == reshape(gen[k], shapes[k][1], shapes[k][2])
            IN  [i \in 1..shapes[k][1] |-> [j \in 1..width |->
                    IF j <= shapes[k][2] THEN Cell(arr[i][j])
                    ELSE MaskedCell(fill_value)]]
    IN  Flatten([k \in 1..Len(shapes) |-> block(k)])

\* The root rounded down instead of up (at least one tile).
FloorRoot(nobs, F, nd) == SetMax({t \in 1..nobs : t = 1 \/ Pow(t, nd) * F <= nobs})

\* math.ceil(x ** (1/nd)) for x = nobs/F: the least t with t^nd * F >= nobs.
CeilRoot(nobs, F, nd) == SetMin({t \in 0..nobs : Pow(t, nd) * F >= nobs})

CeilDiv(a, b) == (a + b - 1) \div b

\* get_shape(nobs, ndims) with the enclosing page_size F.
get_shape(nobs, nd, F) ==
    LET nb_tiles == CeilRoot(nobs, F, nd)
    IN  <<nb_tiles, CeilDiv(nobs, nb_tiles)>>

\* sort_tile_one after its argsort: tile the order argx into nb_tiles rows.
tile_rows(argx, nb_tiles) ==
    LET q == Len(argx) \div nb_tiles
        r == Len(argx) % nb_tiles
        split == (q + 1) * r
    IN  IF r = 0
        THEN [i \in 1..nb_tiles |-> [j \in 1..q |-> Cell(argx[(i - 1) * q + j])]]
        ELSE _concat(<<SubSeq(argx, 1, split), SubSeq(argx, split + 1, Len(argx))>>,
                     <<(<<r, q + 1>>), (<<nb_tiles - r, q>>)>>, 0)

\* sort_tile_one(xs, nb_tiles): every masked matrix it can return.
sort_tile_one(xs, nb_tiles) == {tile_rows(argx, nb_tiles) : argx \in argsort(xs)}

\* The inner tiles taken as they are, not re-indexed through s.compressed().
IndexNoReindex(comp, inner) ==
    LET flat == Flatten(inner)
    IN  [i \in 1..Len(flat) |-> flat[i].v]

\* s.compressed()[inner]: an ndarray indexed by a masked index array.  The
\* index's mask is ignored and the result is a plain ndarray: a masked cell
\* of inner contributes its data (the fill value 0), i.e. s.compressed()[0].
IndexByMasked(comp, inner) ==
    LET flat == Flatten(inner)
    IN  [i \in 1..Len(flat) |-> comp[flat[i].v + 1]]

\* sort_tile(coords) where coords is the array of the rows' coordinate tuples
\* and col the first column still to sort on (coords[:, 1:] advances col);
\* every masked matrix it can return.
RECURSIVE sort_tile(_, _, _)
sort_tile(coords, col, F) ==
    LET D == Len(coords[1]) - col + 1
        nb_tiles == get_shape(Len(coords), D, F)[1]
        splitsSet == sort_tile_one([i \in 1..Len(coords) |-> coords[i][col]], nb_tiles)
        arrays(s) ==
            LET comp == compressed(s)
            IN  {IndexByMasked(comp, inner) :
                    inner \in sort_tile(getitem(coords, comp), col + 1, F)}
        shapes(splits) ==
            [i \in 1..Len(splits) |-> get_shape(count(splits[i]), D - 1, F)]
    IN  IF D = 1 THEN splitsSet
        ELSE UNION {{_concat(gen, shapes(splits), 0) :
                        gen \in SeqProduct([i \in 1..Len(splits) |-> arrays(splits[i])])} :
                    splits \in splitsSet}

\* numpy.ma.arange(n).reshape(-1, 1): the leaf level's identity column.
IdentityColumn(n) == [i \in 1..n |-> <<Cell(i - 1)>>]

----------------------------------------------------------------------------
(* Inputs *)

Box(x0, y0, x1, y1) == Envelope(<<x0, y0>>, <<x1, y1>>)

\* The envelopes the leaves of a search are drawn from: two boxes that share
\* an edge, a degenerate (point) envelope away from both, and a point at the
\* center of the first box (equal centers: argsort has a choice).
LeafPalette == {Box(0, 0, 2, 2), Box(2, 0, 4, 3), Box(4, 4, 4, 4), Box(1, 1, 1, 1)}

\* The envelopes the leaves of a packing are drawn from.
BuildPalette == LeafPalette \cup {Box(0, 3, 4, 4), Box(3, 1, 4, 2)}

\* The envelopes the queries are drawn from: a point strictly inside the
\* first leaf box (and equal to the fourth leaf), a box that overlaps the
\* two leaf boxes, and the leaf point itself.
QueryPalette == {Box(1, 1, 1, 1), Box(1, 1, 4, 3), Box(4, 4, 4, 4)}

\* The (page_size, max_top_size) pairs sort_tile_recurse is called with.
BuildParams == {<<2, 1>>, <<2, 2>>, <<3, 1>>}

\* The pairs of the packing specification: also a page_size of 1 and page
\* sizes that are not positive.
PackParams == BuildParams \cup {<<1, 2>>, <<0, 1>>, <<0, 2>>, <<-1, 2>>}

\* The knn values BVH.nearest is called with.
KnnValues == {1, 2}

NoBVH == [envelopes |-> <<>>, children |-> <<>>]

SearchIdle ==
    /\ obj = <<>> /\ predicate = "none" /\ knn = 0 /\ sparse = FALSE
    /\ paths = <<>> /\ next_paths = <<>> /\ empty_paths = <<>>
    /\ level = 0 /\ cursor = 0 /\ bounds = <<>> /\ result = <<>>

\* No envelope operation has been called.
NoIndexes == [rows |-> <<>>, nomask |-> TRUE]
EnvelopeIdle ==
    /\ lhs = <<>> /\ rhs = <<>> /\ op = "none" /\ out = <<>>
    /\ merge_indexes = NoIndexes

\* nearest of core/spatial_joins.py has not been called.
NoTree == [bounds |-> <<>>, isleaf |-> FALSE, children |-> <<>>]
JoinIdle ==
    geom_type = "none" /\ node_stack = <<>> /\ measures = <<>> /\ matches = <<>>
CoreIdle ==
    /\ right = <<>> /\ geom = <<>> /\ n_neighbours = 0 /\ sindex = NoTree
    /\ nodes_ref = <<>> /\ nodes_heap = {} /\ heap = {} /\ neighbours = <<>>
    /\ JoinIdle

\* The leaf collections: up to maxLeaves pairwise different envelopes.
LeafSeqs(palette, maxLeaves) ==
    {s \in SeqsUpTo(palette, maxLeaves) :
        \A i, j \in 1..Len(s) : i < j => s[i] # s[j]}

InitWith(palette, maxLeaves, params) ==
    /\ egeoms \in LeafSeqs(palette, maxLeaves)
    /\ \E bp \in params : page_size = bp[1] /\ max_top_size = bp[2]
    /\ envel = <<>> /\ children = <<>>
    /\ bvh = NoBVH
    /\ SearchIdle
    /\ EnvelopeIdle
    /\ CoreIdle
    /\ err = "none"
    /\ pc = "start"

Init == InitWith(LeafPalette, MaxN, BuildParams)

InitBuild == InitWith(BuildPalette, MaxBuildN, PackParams)

----------------------------------------------------------------------------
(* str.py: sort_tile_recurse, one action per step *)

\* "Initialise the leaves": envel = [egeoms], children = [identity column].
InitialiseLeaves ==
    /\ pc = "start"
    /\ envel' = <<egeoms>>
    /\ children' = <<IdentityColumn(Len(egeoms))>>
    /\ pc' = "build"
    /\ UNCHANGED <<envVars, coreVars>>
    /\ UNCHANGED <<egeoms, page_size, max_top_size, bvh, err>>
    /\ UNCHANGED searchVars

\* What the first get_shape of a pass raises for a page size that is not
\* positive: nobs/0 is a ZeroDivisionError; for a negative page size and
\* ndims > 1 the power is a complex number, which math.ceil rejects.
get_shape_error(nd, F) ==
    IF F = 0 THEN "ZeroDivisionError"
    ELSE IF F < 0 /\ nd > 1 THEN "TypeError"
    ELSE "none"

\* One pass of "while len(envel[-1]) > max_top_size".
SortTileStep ==
    /\ pc = "build"
    /\ Len(envel[Len(envel)]) > max_top_size
    /\ Len(envel) < MaxLevels
    /\ LET last == envel[Len(envel)]
       IN  IF get_shape_error(ndims(last[1]), page_size) # "none"
           THEN /\ pc' = "error"
                /\ err' = get_shape_error(ndims(last[1]), page_size)
                /\ UNCHANGED <<children, envel>>
           ELSE /\ \E tiles \in sort_tile([i \in 1..Len(last) |-> centers(last[i])],
                                          1, page_size) :
                     /\ children' = Append(children, tiles)
                     /\ envel' = Append(envel, mergeby(last, tiles))
                /\ UNCHANGED <<pc, err>>
    /\ UNCHANGED <<envVars, coreVars>>
    /\ UNCHANGED <<egeoms, page_size, max_top_size, bvh>>
    /\ UNCHANGED searchVars

\* The return with the lists as they were built, leaves first.
BuildReturnUnreversed ==
    /\ pc = "build"
    /\ Len(envel[Len(envel)]) <= max_top_size
    /\ bvh' = [envelopes |-> envel, children |-> children]
    /\ pc' = "ready"
    /\ UNCHANGED <<envVars, coreVars>>
    /\ UNCHANGED <<egeoms, page_size, max_top_size, envel, children, err>>
    /\ UNCHANGED searchVars

\* "return tree.BVH(envel[::-1], children[::-1])".
BuildReturn ==
    /\ pc = "build"
    /\ Len(envel[Len(envel)]) <= max_top_size
    /\ bvh' = [envelopes |-> Reverse(envel), children |-> Reverse(children)]
    /\ pc' = "ready"
    /\ UNCHANGED <<envVars, coreVars>>
    /\ UNCHANGED <<egeoms, page_size, max_top_size, envel, children, err>>
    /\ UNCHANGED searchVars

NextBuild == InitialiseLeaves \/ SortTileStep \/ BuildReturn

SpecBuild == InitBuild /\ [][NextBuild]_vars

\* The packing of larger collections, one collection per size: n unit boxes
\* on a grid three boxes wide (equal centers along x and along y, so argsort
\* has its choices), with a single top node asked for.
GridLeaves(n) == [i \in 1..n |->
    Box((i - 1) % 3, (i - 1) \div 3, ((i - 1) % 3) + 1, ((i - 1) \div 3) + 1)]

\* The page sizes of the depth specification.
DepthPageSizes == {2, 3, 4}

InitDepth ==
    /\ \E n \in 1..MaxDepthN : egeoms = GridLeaves(n)
    /\ page_size \in DepthPageSizes /\ max_top_size = 1
    /\ envel = <<>> /\ children = <<>>
    /\ bvh = NoBVH
    /\ SearchIdle
    /\ EnvelopeIdle
    /\ CoreIdle
    /\ err = "none"
    /\ pc = "start"

SpecDepth == InitDepth /\ [][NextBuild]_vars

----------------------------------------------------------------------------
(* tree.py: BVH *)

\* valid_predicates with one more name in it.
valid_predicates_and_covers ==
    {"intersects", "contains", "within", "overlaps", "crosses", "touches", "covers"}

valid_predicates == {"intersects", "contains", "within", "overlaps", "crosses", "touches"}

\* The names getattr(obj[idx], name) finds on an AAMBRVect and that take one
\* other AAMBRVect and return a boolean matrix: envelope.py defines no
\* contains, within, overlaps, crosses or touches.
AAMBRVectPredicates == {"intersects"}

\* BVH.depth, BVH.is_empty, BVH.width, BVH.__len__
depth(t) == Len(t.envelopes)
is_empty(t) == depth(t) = 0
width(t) == IF is_empty(t) THEN 0 ELSE Len(t.envelopes[1])
len(t) == Len(t.envelopes[depth(t)])

QueryPath(q, t) == [query |-> q, target |-> t]

\* numpy.arange(n)
arange(n) == [i \in 1..n |-> i - 1]

\* a[mask] for a 1-d array a and a boolean array mask of the same length.
RECURSIVE BoolIndex(_, _)
BoolIndex(a, mask) ==
    IF a = <<>> THEN <<>>
    ELSE (IF Head(mask) THEN <<Head(a)>> ELSE <<>>) \o BoolIndex(Tail(a), Tail(mask))

\* A hash that only counts the true cells of the row.
tobytes_count(row) ==
    SumSeq([j \in 1..Len(row) |-> IF row[j] THEN 1 ELSE 0])

\* a.tobytes() of a boolean row, as the number whose order is the order of
\* the byte strings (one byte 0/1 per cell, first cell most significant).
tobytes(row) ==
    SumSeq([j \in 1..Len(row) |-> IF row[j] THEN Pow(2, Len(row) - j) ELSE 0])

\* numpy.unique(sorted, return_index=True)[1]: the 0-based position of the
\* first occurrence of each distinct value, ascending.
unique_index(sorted) ==
    sort(BoolIndex(arange(Len(sorted)),
                   [p \in 1..Len(sorted) |-> \A r \in 1..(p - 1) : sorted[r] # sorted[p]]))

\* split whose pieces all start at the first element.
split_from_start(arr, cuts) ==
    LET edges == <<0>> \o cuts \o <<Len(arr)>>
    IN  [g \in 1..(Len(cuts) + 1) |-> SubSeq(arr, 1, edges[g + 1])]

\* numpy.split(arr, cuts): the pieces of arr between consecutive cuts.
split(arr, cuts) ==
    LET edges == <<0>> \o cuts \o <<Len(arr)>>
    IN  [g \in 1..(Len(cuts) + 1) |-> SubSeq(arr, edges[g] + 1, edges[g + 1])]

\* groupby that keeps all the rows in one group.
groupby_one_group(arr) == {<<arange(Len(arr))>>}

\* groupby(arr, axis=1): every list of groups (arrays of 0-based row numbers)
\* it can return; the argsort of the hashes orders equal rows arbitrarily.
groupby(arr) ==
    LET hashes == [i \in 1..Len(arr) |-> tobytes(arr[i])]
    IN  {LET ind == unique_index([i \in 1..Len(arg) |-> hashes[arg[i] + 1]])
         IN  split(arg, Tail(ind)) : arg \in argsort(hashes)}

\* knn_best for one row of bounds: its knn smallest values, ascending.
knn_best(row, k) ==
    IF Len(row) <= k THEN sort(row) ELSE SubSeq(sort(row), 1, k)

\* BVH.nearest.search_func, the update of _bounds (squared): the rows of the
\* queries idx take the knn smallest of their old row and the new MAXMINDISTs.
NearestBounds(idx, envs, bnds, k) ==
    array([q \in 1..Len(bnds) |->
        IF (q - 1) \in Range(idx)
        THEN knn_best(bnds[q] \o maxmindist(<<obj[q]>>, envs)[1], k)
        ELSE bnds[q]])

\* BVH.nearest.search_func, its return value given the updated _bounds.
NearestPred(idx, envs, newBounds) ==
    matrix([i \in 1..Len(idx) |-> [j \in 1..Len(envs) |->
        distance(<<obj[idx[i] + 1]>>, <<envs[j]>>)[1][1]
            <= SetMax(Range(newBounds[idx[i] + 1]))]])

\* BVH.query.search_func: getattr(obj[idx], predicate)(envel), for a name
\* AAMBRVect has.
QueryPred(idx, envs) == intersects(getitem(obj, idx), envs)

\* The next-level path taken from the columns' positions instead of the
\* node indices path.target holds at those positions.
GroupPathByPosition(path, query, pred, grp, childrenL) ==
    LET selected == BoolIndex(arange(Len(path.target)), pred[grp[1] + 1])
    IN  QueryPath(getitem(query, grp),
                  Flatten(array([t \in 1..Len(selected) |->
                      compressed(childrenL[selected[t] + 1])])))

\* The next-level path of one group of rows of pred (already restricted to
\* the non-empty rows): QueryPath(query[grp], children[path.target[pred[grp[0]]], :].compressed()).
GroupPath(path, query, pred, grp, childrenL) ==
    LET selected == BoolIndex(path.target, pred[grp[1] + 1])
    IN  QueryPath(getitem(query, grp),
                  Flatten(array([t \in 1..Len(selected) |->
                      compressed(childrenL[selected[t] + 1])])))

\* _sparse_to_full: result = [None] * length, then every path writes its
\* target at each of its query positions, later paths over earlier ones.
None == [none |-> TRUE, target |-> <<>>]
\* _sparse_to_full writing each target at the positions 0, 1, ... of the
\* path's query array instead of at the query indices it holds.
RECURSIVE sparse_to_full_by_position(_, _)
sparse_to_full_by_position(ps, length) ==
    IF ps = <<>> THEN [i \in 1..length |-> None]
    ELSE LET before == sparse_to_full_by_position(SubSeq(ps, 1, Len(ps) - 1), length)
             path == ps[Len(ps)]
         IN  [i \in 1..length |->
                IF i <= Len(path.query)
                THEN [none |-> FALSE, target |-> path.target]
                ELSE before[i]]

RECURSIVE _sparse_to_full(_, _)
_sparse_to_full(ps, length) ==
    IF ps = <<>> THEN [i \in 1..length |-> None]
    ELSE LET before == _sparse_to_full(SubSeq(ps, 1, Len(ps) - 1), length)
             path == ps[Len(ps)]
         IN  [i \in 1..length |->
                IF \E p \in 1..Len(path.query) : path.query[p] = i - 1
                THEN [none |-> FALSE, target |-> path.target]
                ELSE before[i]]

----------------------------------------------------------------------------
(* tree.py: the operations on a BVH, one action per step *)

Queries == {o \in SeqsUpTo(QueryPalette, MaxM) : Len(o) >= 1}

\* BVH([], []): the constructor called with no level at all.
NewEmptyBVH ==
    /\ pc = "start"
    /\ egeoms = <<>>
    /\ bvh' = [envelopes |-> <<>>, children |-> <<>>]
    /\ pc' = "ready"
    /\ UNCHANGED <<envVars, coreVars>>
    /\ UNCHANGED <<egeoms, page_size, max_top_size, envel, children, err>>
    /\ UNCHANGED searchVars

\* The start of BVH.search: the single path (arange(len(obj)), arange(width)).
SearchBegin(o) ==
    /\ obj' = o
    /\ paths' = <<QueryPath(arange(Len(o)), arange(width(bvh)))>>
    /\ next_paths' = <<>>
    /\ empty_paths' = <<>>
    /\ level' = 1
    /\ cursor' = 1
    /\ result' = <<>>
    /\ sparse' = FALSE

\* BVH.query(obj, predicate) up to the first level of its search.  The name
\* is checked against valid_predicates; search_func is first called in the
\* first pass of the level loop (there is one when the tree has a level), and
\* its getattr raises AttributeError for a name AAMBRVect does not have.
Query ==
    /\ pc = "ready"
    /\ \E o \in Queries, p \in valid_predicates \cup {"covers"} :
         /\ predicate' = p
         /\ knn' = 0
         /\ bounds' = <<>>
         /\ IF p \notin valid_predicates
            THEN \* raised before self.search is called
                 /\ obj' = o
                 /\ UNCHANGED <<paths, next_paths, empty_paths, level, cursor,
                                result, sparse>>
                 /\ pc' = "error"
                 /\ err' = "ValueError: Invalid predicate"
            ELSE /\ SearchBegin(o)
                 /\ IF depth(bvh) >= 1 /\ p \notin AAMBRVectPredicates
                    THEN /\ pc' = "error"
                         /\ err' = "AttributeError"
                    ELSE /\ pc' = "search"
                         /\ err' = err
    /\ UNCHANGED <<envVars, coreVars>>
    /\ UNCHANGED <<egeoms, page_size, max_top_size, envel, children, bvh>>

\* BVH.nearest(obj, knn) up to the first level of its search.
Nearest ==
    /\ pc = "ready"
    /\ \E o \in Queries, k \in KnnValues :
         /\ predicate' = "nearest"
         /\ knn' = k
         /\ bounds' = [q \in 1..Len(o) |-> [j \in 1..k |-> Inf]]
         /\ SearchBegin(o)
    /\ pc' = "search"
    /\ UNCHANGED <<envVars, coreVars>>
    /\ UNCHANGED <<egeoms, page_size, max_top_size, envel, children, bvh, err>>

\* The body of "for path in paths" for paths[cursor] at the current level;
\* after the last path of the level, "paths = next_paths".
SearchPath ==
    /\ pc = "search"
    /\ level <= depth(bvh)
    /\ cursor <= Len(paths)
    /\ \E path \in {paths[cursor]} :
       \E envs \in {getitem(bvh.envelopes[level], path.target)} :
       \* (each local is bound to its value once, as the code computes it)
       \E newBounds \in {IF predicate = "nearest"
                          THEN NearestBounds(path.query, envs, bounds, knn)
                          ELSE bounds} :
       \E pred0 \in {IF predicate = "nearest"
                      THEN NearestPred(path.query, envs, newBounds)
                      ELSE QueryPred(path.query, envs)} :
       \E is_nonempty \in {array([i \in 1..Len(pred0) |->
                               \E j \in 1..Len(pred0[i]) : pred0[i][j]])} :
       \E pred \in {BoolIndex(pred0, is_nonempty)} :
       \E query \in {BoolIndex(path.query, is_nonempty)} :
           /\ bounds' = newBounds
           /\ empty_paths' = Append(empty_paths,
                 BoolIndex(path.query, [i \in 1..Len(pred0) |-> ~is_nonempty[i]]))
           /\ \E grps \in (IF pred = <<>> THEN {<<>>} ELSE groupby(pred)) :
                LET np == next_paths \o
                          [g \in 1..Len(grps) |->
                             GroupPath(path, query, pred, grps[g],
                                       bvh.children[level])]
                IN  IF cursor < Len(paths)
                    THEN /\ next_paths' = np
                         /\ cursor' = cursor + 1
                         /\ UNCHANGED <<paths, level>>
                    ELSE /\ paths' = np
                         /\ next_paths' = <<>>
                         /\ cursor' = 1
                         /\ level' = level + 1
           /\ UNCHANGED <<pc, err>>
    /\ UNCHANGED <<envVars, coreVars>>
    /\ UNCHANGED <<egeoms, page_size, max_top_size, envel, children, bvh,
                   obj, predicate, knn, sparse, result>>

\* A level reached with no active path: "for path in paths" has no pass.
SkipLevel ==
    /\ pc = "search"
    /\ level <= depth(bvh)
    /\ paths = <<>>
    /\ level' = level + 1
    /\ UNCHANGED <<envVars, coreVars>>
    /\ UNCHANGED <<egeoms, page_size, max_top_size, envel, children, bvh, obj,
                   predicate, knn, sparse, paths, next_paths, empty_paths, cursor,
                   bounds, result, err, pc>>

\* After the last level: the path of the emptied queries is appended
\* (numpy.concatenate raises ValueError on an empty list) and the result
\* is returned, sparse or full.
SearchFinish ==
    /\ pc = "search"
    /\ level > depth(bvh)
    /\ IF empty_paths = <<>>
       THEN /\ pc' = "error"
            /\ err' = "ValueError: need at least one array to concatenate"
            /\ UNCHANGED <<paths, sparse, result>>
       ELSE \E sp \in BOOLEAN :
            /\ paths' = Append(paths, QueryPath(Flatten(empty_paths), <<>>))
            /\ sparse' = sp
            /\ result' = IF sp THEN paths' ELSE _sparse_to_full(paths', Len(obj))
            /\ pc' = "done"
            /\ err' = err
    /\ UNCHANGED <<envVars, coreVars>>
    /\ UNCHANGED <<egeoms, page_size, max_top_size, envel, children, bvh, obj,
                   predicate, knn, next_paths, empty_paths, level, cursor, bounds>>

Next ==
    \/ InitialiseLeaves
    \/ SortTileStep
    \/ BuildReturn
    \/ NewEmptyBVH
    \/ Query
    \/ Nearest
    \/ SearchPath
    \/ SkipLevel
    \/ SearchFinish

Spec == Init /\ [][Next]_vars

\* The searches of the deepest trees only: page_size 2 under a single root.
DeepParams == {<<2, 1>>}

InitDeep == InitWith(LeafPalette, MaxN, DeepParams)

SpecDeep == InitDeep /\ [][Next]_vars

\* The searches of one tree of five leaves with page_size 2: a slab of three
\* leaves is tiled in a full row and a row with a masked cell.
FiveLeaves ==
    <<Box(0, 0, 2, 2), Box(0, 3, 4, 4), Box(1, 1, 1, 1), Box(2, 0, 4, 3),
      Box(3, 1, 4, 2)>>

InitFive ==
    /\ egeoms = FiveLeaves
    /\ page_size = 2 /\ max_top_size = 1
    /\ envel = <<>> /\ children = <<>>
    /\ bvh = NoBVH
    /\ SearchIdle
    /\ EnvelopeIdle
    /\ CoreIdle
    /\ err = "none"
    /\ pc = "start"

\* (NewEmptyBVH, the constructor called on no level, is not part of it.)
NextFive ==
    \/ InitialiseLeaves
    \/ SortTileStep
    \/ BuildReturn
    \/ Query
    \/ Nearest
    \/ SearchPath
    \/ SkipLevel
    \/ SearchFinish

SpecFive == InitFive /\ [][NextFive]_vars

----------------------------------------------------------------------------
(* envelope.py: the pairwise operations, each called once on two vectors *)

Interval(x0, x1) == Envelope(<<x0>>, <<x1>>)

\* The vectors the operations are called with: 2-d boxes and points, 1-d
\* intervals, one 3-d box.  All envelopes of a vector have its ndims.
Palettes ==
    {LeafPalette, {Interval(0, 2), Interval(3, 3)}, {Envelope(<<0, 0, 0>>, <<1, 2, 3>>)}}
Vects ==
    UNION {{v \in SeqsUpTo(pal, MaxRows) : Len(v) >= 1} : pal \in Palettes}

InitEnvelope ==
    /\ lhs \in Vects /\ rhs \in Vects /\ op = "none" /\ out = <<>>
    /\ merge_indexes = NoIndexes
    /\ egeoms = <<>> /\ page_size = 16 /\ max_top_size = 1
    /\ envel = <<>> /\ children = <<>> /\ bvh = NoBVH
    /\ SearchIdle /\ CoreIdle
    /\ err = "none" /\ pc = "envelope"

\* A method that starts with self.check_dims(other) and returns value.
Checked(name, value) ==
    /\ pc = "envelope"
    /\ op' = name
    /\ IF check_dims(lhs, rhs) # "none"
       THEN pc' = "error" /\ err' = check_dims(lhs, rhs) /\ out' = out
       ELSE pc' = "returned" /\ err' = err /\ out' = value
    /\ UNCHANGED <<lhs, rhs, merge_indexes>>
    /\ UNCHANGED <<buildVars, bvh, searchVars, coreVars>>

CallIntersects == Checked("intersects", intersects(lhs, rhs))
CallDistance == Checked("distance", distance(lhs, rhs))
CallMaxDist == Checked("maxdist", maxdist(lhs, rhs))
CallBoundDist == Checked("bound_dist", bound_dist(lhs, rhs))

\* maxmindist has no check_dims: it fails only where numpy cannot
\* broadcast the two boundary arrays.
CallMaxMinDist ==
    /\ pc = "envelope"
    /\ op' = "maxmindist"
    /\ IF broadcast_error(lhs, rhs) # "none"
       THEN pc' = "error" /\ err' = broadcast_error(lhs, rhs) /\ out' = out
       ELSE pc' = "returned" /\ err' = err /\ out' = maxmindist(lhs, rhs)
    /\ UNCHANGED <<lhs, rhs, merge_indexes>>
    /\ UNCHANGED <<buildVars, bvh, searchVars, coreVars>>

NextEnvelope ==
    \/ CallIntersects
    \/ CallDistance
    \/ CallMaxDist
    \/ CallBoundDist
    \/ CallMaxMinDist

SpecEnvelope == InitEnvelope /\ [][NextEnvelope]_vars

----------------------------------------------------------------------------
(* envelope.py: mergeby called on a vector and a masked index matrix.  A     *)
(* numpy.ma array made without a mask (numpy.ma.array(data), as sort_tile_one *)
(* makes it when the tiles divide evenly) has mask = numpy.ma.nomask, a       *)
(* 0-d False, not a matrix of False: [rows, nomask] keeps the two apart.      *)

\* The vectors mergeby is called on.
MergeSelf ==
    {<<Box(0, 0, 2, 2), Box(2, 0, 4, 3), Box(1, 1, 1, 1)>>,
     <<Box(4, 4, 4, 4), Box(0, 0, 2, 2)>>,
     <<Interval(0, 2), Interval(3, 3)>>}

\* The cells of an index matrix over n envelopes: an index, or a masked cell
\* whose data is the fill value 0 of _concat or any other number (here n).
IndexCells(n) == {Cell(v) : v \in 0..(n - 1)} \cup {MaskedCell(0), MaskedCell(n)}

\* Rows with at least one unmasked cell.
IndexRows(n, k) == {r \in [1..k -> IndexCells(n)] : \E j \in 1..k : ~r[j].m}

\* The numbers of rows (groups) of the index matrices.
GroupCounts == {1, 2}

IndexMatrices(n) ==
    UNION {[1..G -> IndexRows(n, k)] : G \in GroupCounts, k \in 1..MaxCols}

\* The masked arrays: with a mask matrix, or (no cell masked) with nomask.
MaskedIndexes(n) ==
    {ix \in [rows : IndexMatrices(n), nomask : BOOLEAN] :
        ix.nomask => \A i \in 1..Len(ix.rows) : \A j \in 1..Len(ix.rows[i]) :
                         ~ix.rows[i][j].m}

InitMerge ==
    /\ lhs \in MergeSelf /\ rhs = <<>> /\ op = "none" /\ out = <<>>
    /\ merge_indexes \in MaskedIndexes(Len(lhs))
    /\ egeoms = <<>> /\ page_size = 16 /\ max_top_size = 1
    /\ envel = <<>> /\ children = <<>> /\ bvh = NoBVH
    /\ SearchIdle /\ CoreIdle
    /\ err = "none" /\ pc = "envelope"

\* What mergeby raises.  numpy.repeat(indexes.mask, ndims) has G*k*ndims
\* cells for a mask matrix but ndims cells for nomask, which reshape takes
\* only when G*k = 1.  self.mins[indexes] indexes with the data of every
\* cell, masked or not: data outside [-n, n) is an IndexError.
mergeby_error(self, ix) ==
    LET G == Len(ix.rows)
        k == Len(ix.rows[1])
        n == Len(self)
    IN  IF ix.nomask /\ G * k # 1
        THEN "ValueError: cannot reshape array"
        ELSE IF \E i \in 1..G : \E j \in 1..k :
                   ix.rows[i][j].v < -n \/ ix.rows[i][j].v >= n
        THEN "IndexError"
        ELSE "none"

CallMergeBy ==
    /\ pc = "envelope"
    /\ op' = "mergeby"
    /\ IF mergeby_error(lhs, merge_indexes) # "none"
       THEN pc' = "error" /\ err' = mergeby_error(lhs, merge_indexes) /\ out' = out
       ELSE pc' = "returned" /\ err' = err /\ out' = mergeby(lhs, merge_indexes.rows)
    /\ UNCHANGED <<lhs, rhs, merge_indexes>>
    /\ UNCHANGED <<buildVars, bvh, searchVars, coreVars>>

NextMerge == CallMergeBy

SpecMerge == InitMerge /\ [][NextMerge]_vars

----------------------------------------------------------------------------
(* core: the BoundingGeometryTree, its ApproxNearest visitor and nearest of  *)
(* core/spatial_joins.py.  Coordinates are in units of buf; distances are    *)
(* squared.                                                                  *)

\* Rect.__init__: the default buffer, 10**-6, the unit of this part.
buf == 1

\* Rect(minx, miny, maxx, maxy): the rectangle grown by buf on every side.
Rect(x0, y0, x1, y1) ==
    [minx |-> x0 - buf, miny |-> y0 - buf, maxx |-> x1 + buf, maxy |-> y1 + buf]

\* Rect.merge (bound_all): Rect of the extreme coordinates, buffered again.
merge(collection) ==
    Rect(SetMin({r.minx : r \in collection}), SetMin({r.miny : r \in collection}),
         SetMax({r.maxx : r \in collection}), SetMax({r.maxy : r \in collection}))

\* Rect.mindist (squared).
mindist(self, to_other) ==
    LET x == Max3(0, self.minx - to_other.maxx, to_other.minx - self.maxx)
        y == Max3(0, self.miny - to_other.maxy, to_other.miny - self.maxy)
    IN  Sq(x) + Sq(y)

\* The bounds (minx, miny, maxx, maxy) of the right geometries and of geom.
RightBounds == {<<0, 0, 2, 2>>, <<6, 0, 8, 3>>, <<8, 8, 8, 8>>, <<3, 3, 3, 3>>}
GeomBounds == {<<3, 3, 3, 3>>, <<2, 2, 8, 6>>}

\* geom.distance(right[idx]) is the distance of the two geometries: at least
\* the distance of their bounds, and more by any amount when the geometry
\* does not fill its bounds.
Slack == {0, 7}
BoundsDist(a, b) ==
    Sq(Max3(0, a[1] - b[3], b[1] - a[3])) + Sq(Max3(0, a[2] - b[4], b[2] - a[4]))

\* (max_children, max_leaves) of DKMeansBulkInsert: splitting down to single
\* leaves, and the defaults.
IndexParams == {<<2, 1>>, <<6, 64>>}

InitCore ==
    /\ geom \in GeomBounds
    /\ \E bs \in LeafSeqs(RightBounds, MaxRight) :
         /\ Len(bs) >= 1
         /\ \E sl \in [1..Len(bs) -> Slack] :
              right = [i \in 1..Len(bs) |->
                          [bounds |-> bs[i], dist |-> BoundsDist(geom, bs[i]) + sl[i]]]
    /\ n_neighbours \in 1..Len(right)
    /\ sindex = NoTree
    /\ nodes_ref = <<>> /\ nodes_heap = {} /\ heap = {} /\ neighbours = <<>>
    /\ JoinIdle
    /\ egeoms = <<>> /\ page_size = 16 /\ max_top_size = 1
    /\ envel = <<>> /\ children = <<>> /\ bvh = NoBVH
    /\ SearchIdle /\ EnvelopeIdle
    /\ err = "none" /\ pc = "joined"

\* bgeoms of prepare_geoms: the Rect of the bounds of right[idx] (0-based idx).
bgeom_of(idx) ==
    LET b == right[idx + 1].bounds IN Rect(b[1], b[2], b[3], b[4])

\* DKMeansBulkInsert.visit_empty: the trees it can build over the ids.  A
\* group of at most max_leaves ids is a leaf; a larger one is clustered in
\* two groups (n_clusters = max_children = 2).  The clustering is KMeans';
\* right is taken in every order, so a cut of the id sequence stands for
\* every clustering in two non-empty groups.
RECURSIVE BulkTrees(_, _)
BulkTrees(ids, max_leaves) ==
    LET bounds_all == merge({bgeom_of(ids[i]) : i \in 1..Len(ids)})
    IN  IF Len(ids) <= max_leaves
        THEN {[bounds |-> bounds_all, isleaf |-> TRUE, children |-> ids]}
        ELSE UNION {
               {[bounds |-> bounds_all, isleaf |-> FALSE, children |-> <<a, b>>] :
                    a \in BulkTrees(SubSeq(ids, 1, j), max_leaves),
                    b \in BulkTrees(SubSeq(ids, j + 1, Len(ids)), max_leaves)} :
               j \in 1..(Len(ids) - 1)}

\* prepare_geoms: sindex.accept(DKMeansBulkInsert(...), bgeoms).
BulkInsert ==
    /\ pc = "joined"
    /\ \E ip \in IndexParams : sindex' \in BulkTrees(arange(Len(right)), ip[2])
    /\ pc' = "indexed"
    /\ UNCHANGED <<right, geom, n_neighbours, nodes_ref, nodes_heap, heap, neighbours>>
    /\ UNCHANGED <<buildVars, bvh, searchVars, envVars, joinVars, err>>

\* Python's order of the tuples (mindist, idx, is_node): False < True.
TupleLess(e, f) ==
    \/ e[1] < f[1]
    \/ e[1] = f[1] /\ e[2] < f[2]
    \/ e[1] = f[1] /\ e[2] = f[2] /\ Len(e) = 3 /\ ~e[3] /\ f[3]

\* heap[0], which heapq.heappop removes: the least entry.
heap_top(h) == CHOOSE e \in h : \A f \in h \ {e} : TupleLess(e, f)

\* heapq.heapreplace: pops the least entry, then pushes item.
heapreplace(h, item) == (h \ {heap_top(h)}) \cup {item}

\* heapq.heappushpop: pushes item, then pops the least entry.
heappushpop(h, item) == (h \cup {item}) \ {heap_top(h \cup {item})}

\* [heapq.heappop(heap) for _ in range(len(heap))]
RECURSIVE pop_all(_)
pop_all(h) ==
    IF h = {} THEN <<>> ELSE <<heap_top(h)>> \o pop_all(h \ {heap_top(h)})

\* The end of nearest: the heap emptied, reversed, as (idx, dist) pairs.
sorted_neighbours(h) ==
    LET sorted_heap == Reverse(pop_all(h))
    IN  [i \in 1..Len(sorted_heap) |-> <<sorted_heap[i][2], -sorted_heap[i][1]>>]

\* nearest up to its first next(candidates): the visitor starts at the root.
NearestBegin ==
    /\ pc = "indexed"
    /\ nodes_ref' = <<sindex>>
    /\ nodes_heap' = {<<mindist(Rect(geom[1], geom[2], geom[3], geom[4]),
                                sindex.bounds), 0, TRUE>>}
    /\ heap' = {}
    /\ pc' = "fill"
    /\ UNCHANGED <<right, geom, n_neighbours, sindex, neighbours>>
    /\ UNCHANGED <<buildVars, bvh, searchVars, envVars, joinVars, err>>

\* ApproxNearest.visit, a pass of "while nodes_heap" that pops a node: its
\* children (or, for a leaf node, its objects) are pushed.
VisitNode ==
    /\ pc \in {"fill", "scan"}
    /\ nodes_heap # {}
    /\ heap_top(nodes_heap)[3]
    /\ LET top == heap_top(nodes_heap)
           node == nodes_ref[top[2] + 1]
           bgeom == Rect(geom[1], geom[2], geom[3], geom[4])
           n_nodes == Len(nodes_ref)
       IN  IF ~node.isleaf
           THEN /\ nodes_heap' = (nodes_heap \ {top}) \cup
                      {<<mindist(bgeom, node.children[c].bounds), n_nodes + c - 1, TRUE>> :
                          c \in 1..Len(node.children)}
                /\ nodes_ref' = nodes_ref \o node.children
           ELSE /\ nodes_heap' = (nodes_heap \ {top}) \cup
                      {<<mindist(bgeom, bgeom_of(idx)), idx, FALSE>> :
                          idx \in Range(node.children)}
                /\ nodes_ref' = nodes_ref
    /\ UNCHANGED <<right, geom, n_neighbours, sindex, heap, neighbours, pc>>
    /\ UNCHANGED <<buildVars, bvh, searchVars, envVars, joinVars, err>>

\* A pass that pops an object: it is yielded, and nearest takes it, in its
\* first loop (the heap is filled) or in its second (kept, or the break and
\* the return).
VisitYield ==
    /\ pc \in {"fill", "scan"}
    /\ nodes_heap # {}
    /\ ~heap_top(nodes_heap)[3]
    /\ LET top == heap_top(nodes_heap)
           idx == top[2]
           dist == right[idx + 1].dist
       IN  /\ nodes_heap' = nodes_heap \ {top}
           /\ IF pc = "fill"
              THEN /\ heap' = heap \cup {<<-dist, idx>>}
                   /\ pc' = IF Cardinality(heap') = n_neighbours THEN "scan" ELSE "fill"
                   /\ neighbours' = neighbours
              ELSE IF top[1] >= -heap_top(heap)[1]
              THEN /\ neighbours' = sorted_neighbours(heap)
                   /\ heap' = {}
                   /\ pc' = "neighbours"
              ELSE /\ heap' = heappushpop(heap, <<-dist, idx>>)
                   /\ UNCHANGED <<pc, neighbours>>
    /\ UNCHANGED <<right, geom, n_neighbours, sindex, nodes_ref>>
    /\ UNCHANGED <<buildVars, bvh, searchVars, envVars, joinVars, err>>

\* The candidates are exhausted: the second loop ends and nearest returns.
NearestReturn ==
    /\ pc = "scan"
    /\ nodes_heap = {}
    /\ neighbours' = sorted_neighbours(heap)
    /\ heap' = {}
    /\ pc' = "neighbours"
    /\ UNCHANGED <<right, geom, n_neighbours, sindex, nodes_ref, nodes_heap>>
    /\ UNCHANGED <<buildVars, bvh, searchVars, envVars, joinVars, err>>

NextCore ==
    \/ BulkInsert
    \/ NearestBegin
    \/ VisitNode
    \/ VisitYield
    \/ NearestReturn

SpecCore == InitCore /\ [][NextCore]_vars

----------------------------------------------------------------------------
(* core: max_intersection of core/spatial_joins.py and the Intersection      *)
(* visitor.  The measure (length or area) of geom's intersection with a      *)
(* right geometry is a whole number of units.                                *)

\* Rect.intersects: the two rectangles overlap with a positive extent.
Rect_intersects(self, other) ==
    LET minx == SetMax({self.minx, other.minx})
        miny == SetMax({self.miny, other.miny})
        maxx == SetMin({self.maxx, other.maxx})
        maxy == SetMin({self.maxy, other.maxy})
    IN  minx < maxx /\ miny < maxy

\* math.isclose(a, b), rel_tol = 1e-09 and abs_tol = 0.
isclose(a, b) == Abs(a - b) * 1000000000 <= SetMax({Abs(a), Abs(b)})

\* The bounds of the right geometries of a max-measure join: a box that
\* touches geom's box at a corner, two boxes that overlap it, a far point.
JoinRightBounds == {<<0, 0, 2, 2>>, <<6, 0, 8, 3>>, <<3, 3, 5, 5>>, <<8, 8, 8, 8>>}

\* geom: a point, or a line or polygon with the bounds (2, 2, 8, 6).
JoinGeoms ==
    {[bounds |-> <<3, 3, 3, 3>>, type |-> "Point"],
     [bounds |-> <<2, 2, 8, 6>>, type |-> "LineString"],
     [bounds |-> <<2, 2, 8, 6>>, type |-> "Polygon"]}

\* The measures geom.intersection(right[x]).length or .area takes.
Measures == {0, 1, 2}

\* Two geometries can share a length or an area only where their bounds
\* share more than a point.
BoundsOverlap(a, b) ==
    /\ a[1] <= b[3] /\ b[1] <= a[3] /\ a[2] <= b[4] /\ b[2] <= a[4]
    /\ \/ SetMax({a[1], b[1]}) < SetMin({a[3], b[3]})
       \/ SetMax({a[2], b[2]}) < SetMin({a[4], b[4]})

InitJoin ==
    /\ \E g \in JoinGeoms : geom = g.bounds /\ geom_type = g.type
    /\ \E bs \in LeafSeqs(JoinRightBounds, MaxRight) :
         /\ Len(bs) >= 1
         /\ \E ms \in [1..Len(bs) -> Measures] :
              /\ \A i \in 1..Len(bs) : ms[i] > 0 => BoundsOverlap(geom, bs[i])
              /\ right = [i \in 1..Len(bs) |-> [bounds |-> bs[i], measure |-> ms[i]]]
    /\ n_neighbours = 0
    /\ sindex = NoTree
    /\ nodes_ref = <<>> /\ nodes_heap = {} /\ heap = {} /\ neighbours = <<>>
    /\ node_stack = <<>> /\ measures = <<>> /\ matches = <<>>
    /\ egeoms = <<>> /\ page_size = 16 /\ max_top_size = 1
    /\ envel = <<>> /\ children = <<>> /\ bvh = NoBVH
    /\ SearchIdle /\ EnvelopeIdle
    /\ err = "none" /\ pc = "joined"

\* max_intersection up to its list comprehension: the visitor is made, and
\* a geom that is neither a line nor a polygon is refused before any
\* candidate is asked for.
MaxIntersectionBegin ==
    /\ pc = "indexed"
    /\ geom_type # "none"
    /\ IF geom_type \in {"LineString", "MultiLineString", "Polygon", "MultiPolygon"}
       THEN /\ node_stack' = <<sindex>>
            /\ pc' = "measuring"
            /\ err' = err
       ELSE /\ node_stack' = node_stack
            /\ pc' = "error"
            /\ err' = "ValueError: geometry type is not supported"
    /\ UNCHANGED <<geom_type, measures, matches>>
    /\ UNCHANGED <<right, geom, n_neighbours, sindex, nodes_ref, nodes_heap, heap,
                   neighbours>>
    /\ UNCHANGED <<buildVars, bvh, searchVars, envVars>>

\* Intersection.visit, one pass of "while len(node_stack) > 0"; the
\* indices a leaf node yields are measured by the comprehension as they come.
VisitIntersection ==
    /\ pc = "measuring"
    /\ node_stack # <<>>
    /\ LET tree == Head(node_stack)
           bgeom == Rect(geom[1], geom[2], geom[3], geom[4])
       IN  IF ~Rect_intersects(bgeom, tree.bounds)
           THEN /\ node_stack' = Tail(node_stack)
                /\ measures' = measures
           ELSE IF tree.isleaf
           THEN /\ node_stack' = Tail(node_stack)
                /\ measures' = measures \o
                      [p \in 1..Len(BoolIndex(tree.children,
                              [c \in 1..Len(tree.children) |->
                                  Rect_intersects(bgeom, bgeom_of(tree.children[c]))])) |->
                          LET x == BoolIndex(tree.children,
                                     [c \in 1..Len(tree.children) |->
                                         Rect_intersects(bgeom, bgeom_of(tree.children[c]))])[p]
                          IN  <<right[x + 1].measure, x>>]
           ELSE /\ node_stack' = Tail(node_stack) \o tree.children
                /\ measures' = measures
    /\ UNCHANGED <<geom_type, matches, pc>>
    /\ UNCHANGED <<right, geom, n_neighbours, sindex, nodes_ref, nodes_heap, heap,
                   neighbours>>
    /\ UNCHANGED <<buildVars, bvh, searchVars, envVars, err>>

\* (None, numpy.nan): no index and no measure, written -1.
NoMatch == <<-1, -1>>

\* max(measures): the greatest (measure, x) tuple.
max(ms) == CHOOSE e \in Range(ms) : \A f \in Range(ms) \ {e} : TupleLess(f, e)

\* The selection that keeps every candidate with a positive measure.
SelectPositive(ms) ==
    IF Len(ms) = 0 THEN <<NoMatch>>
    ELSE IF isclose(max(ms)[1], 0) THEN <<NoMatch>>
    ELSE LET kept == BoolIndex(ms, [p \in 1..Len(ms) |-> ms[p][1] > 0])
         IN  [p \in 1..Len(kept) |-> <<kept[p][2], kept[p][1]>>]

\* The end of max_intersection: what it returns for the measures taken.
SelectMax(ms) ==
    IF Len(ms) = 0 THEN <<NoMatch>>
    ELSE IF isclose(max(ms)[1], 0) THEN <<NoMatch>>
    ELSE LET length == max(ms)[1]
             kept == BoolIndex(ms, [p \in 1..Len(ms) |-> isclose(ms[p][1], length)])
         IN  [p \in 1..Len(kept) |-> <<kept[p][2], kept[p][1]>>]

\* The candidates are exhausted: the selection and the return.
MaxIntersectionReturn ==
    /\ pc = "measuring"
    /\ node_stack = <<>>
    /\ matches' = SelectMax(measures)
    /\ pc' = "matched"
    /\ UNCHANGED <<geom_type, node_stack, measures>>
    /\ UNCHANGED <<right, geom, n_neighbours, sindex, nodes_ref, nodes_heap, heap,
                   neighbours>>
    /\ UNCHANGED <<buildVars, bvh, searchVars, envVars, err>>

NextJoin ==
    \/ BulkInsert
    \/ MaxIntersectionBegin
    \/ VisitIntersection
    \/ MaxIntersectionReturn

SpecJoin == InitJoin /\ [][NextJoin]_vars

----------------------------------------------------------------------------
(* The geometry kernel, for the statements that compare the index with the   *)
(* exact answer.  The geometries are taken to be the closed filled boxes, so  *)
(* each geometry's tight envelope is itself.                                  *)

\* The exact (squared) Euclidean distance of two closed boxes.
TrueDist(a, b) ==
    SumSeq(array([d \in 1..ndims(a) |->
        Sq(Max3(0, a.mins[d] - b.maxs[d], b.mins[d] - a.maxs[d]))]))

\* The exact intersects predicate of two closed boxes: they share a point.
ExactIntersects(a, b) ==
    \A d \in 1..ndims(a) : a.mins[d] <= b.maxs[d] /\ b.mins[d] <= a.maxs[d]

Leaves == 0..(Len(egeoms) - 1)

\* Leaf r is among the k true nearest of query q (1-based q): fewer than k
\* leaves are strictly nearer.
IsTrueKnn(q, r, k) ==
    Cardinality({r2 \in Leaves :
        TrueDist(obj[q], egeoms[r2 + 1]) < TrueDist(obj[q], egeoms[r + 1])}) < k

\* The true distance from query q to its k-th nearest leaf (k <= number of leaves).
KthTrueDist(q, k) ==
    sort(array([r \in 1..Len(egeoms) |-> TrueDist(obj[q], egeoms[r])]))[k]

\* The candidates the full result gives for query q (1-based q).
Candidates(q) == Range(result[q].target)

Returned == pc = "done" /\ ~sparse
QueryIds == 1..Len(obj)

\* The unmasked cells of a children table, and the sizes of the levels.
Unmasked(table) == Flatten(array([i \in 1..Len(table) |-> compressed(table[i])]))
Times(x, cells) == Cardinality({p \in 1..Len(cells) : cells[p] = x})

----------------------------------------------------------------------------
(* Claims *)

\* C1: KNN soundness of BVH.nearest: for every query q and every k >= 1, the
\* candidate array returned for q contains every leaf that is among the k
\* true nearest of q.
C1_KnnSoundness ==
    (Returned /\ predicate = "nearest") =>
        \A q \in QueryIds : \A r \in Leaves :
            IsTrueKnn(q, r, knn) => r \in Candidates(q)

\* C2: after each level of BVH.nearest, for every query still active,
\* max(bounds[q]) is at least the true distance from q to its k-th nearest
\* leaf.
LevelDone == pc = "search" /\ predicate = "nearest" /\ cursor = 1 /\ level > 1
ActiveQueries == {q \in QueryIds : \E p \in 1..Len(paths) : (q - 1) \in Range(paths[p].query)}
C2_KthUpperBound ==
    (LevelDone /\ Len(egeoms) >= knn) =>
        \A q \in ActiveQueries :
            SetMax(Range(bounds[q])) >= KthTrueDist(q, knn)

\* C3: predicate soundness of BVH.query: every leaf whose exact predicate
\* with q holds (closed sets: sharing only boundary points counts) is among
\* the candidates returned for q.
C3_PredicateSoundness ==
    (Returned /\ predicate = "intersects") =>
        \A q \in QueryIds : \A r \in Leaves :
            ExactIntersects(obj[q], egeoms[r + 1]) => r \in Candidates(q)

\* C4: query(obj, 'intersects')[q] is, as a set, exactly the leaves whose
\* envelope passes the envelope intersects test with obj[q].
BruteForce(q) ==
    {j \in Leaves : intersects(<<obj[q]>>, <<egeoms[j + 1]>>)[1][1]}
C4_QueryEqualsBruteForce ==
    (Returned /\ predicate = "intersects" /\ ~is_empty(bvh)) =>
        \A q \in QueryIds : Candidates(q) = BruteForce(q)
C4_Witness ==
    /\ Returned /\ predicate = "intersects" /\ depth(bvh) = 3
    /\ \E q \in QueryIds : Candidates(q) # {} /\ Candidates(q) # Leaves
    /\ \E q \in QueryIds : Candidates(q) = {}

\* C5: for each of the six names in valid_predicates, query completes
\* without error (and gives the result of query(obj, 'intersects')).
C5_ValidPredicatesComplete ==
    (predicate \in valid_predicates /\ ~is_empty(bvh)) => pc # "error"

\* C6: at every level the unmasked cells of the children matrix contain each
\* index of the next level exactly once.
NextSize(l) == IF l < depth(bvh) THEN Len(bvh.envelopes[l + 1]) ELSE Len(egeoms)
C6_ChildrenExactlyOnce ==
    (pc = "ready" /\ page_size >= 2) =>
        \A l \in 1..depth(bvh) : \A x \in 0..(NextSize(l) - 1) :
            Times(x, Unmasked(bvh.children[l])) = 1

\* C7: at every level every unmasked index of children[l] lies in
\* [0, n_{l+1}) and the union of the child sets is the whole of [0, n_{l+1}).
C7_ChildrenCoverNextLevel ==
    pc = "ready" =>
        \A l \in 1..depth(bvh) :
            Range(Unmasked(bvh.children[l])) = 0..(NextSize(l) - 1)
C7_Witness ==
    /\ pc = "ready" /\ depth(bvh) >= 3
    /\ \E l \in 1..depth(bvh) : \E i \in 1..Len(bvh.children[l]) :
          \E j \in 1..Len(bvh.children[l][i]) : bvh.children[l][i][j].m

\* C8: every node's envelope contains the envelope of each of its listed
\* children, hence of every leaf below it.
Contains(outer, inner) ==
    \A d \in 1..ndims(outer) :
        outer.mins[d] <= inner.mins[d] /\ inner.maxs[d] <= outer.maxs[d]
RECURSIVE LeavesBelow(_, _)
LeavesBelow(l, n) ==
    IF l = depth(bvh) THEN {n}
    ELSE UNION {LeavesBelow(l + 1, c) : c \in Range(compressed(bvh.children[l][n + 1]))}
C8_EnvelopeContainment ==
    pc = "ready" =>
        \A l \in 1..depth(bvh) : \A n \in 0..(Len(bvh.envelopes[l]) - 1) :
            /\ l < depth(bvh) =>
                 \A c \in Range(compressed(bvh.children[l][n + 1])) :
                     Contains(bvh.envelopes[l][n + 1], bvh.envelopes[l + 1][c + 1])
            /\ \A leaf \in LeavesBelow(l, n) :
                 Contains(bvh.envelopes[l][n + 1], egeoms[leaf + 1])
C8_Witness ==
    /\ pc = "ready" /\ depth(bvh) >= 3
    /\ \E c \in Range(compressed(bvh.children[1][1])) :
          bvh.envelopes[2][c + 1] # bvh.envelopes[1][1]
    /\ \E c \in Range(compressed(bvh.children[2][1])) :
          bvh.envelopes[3][c + 1] # bvh.envelopes[2][1]

\* C9: the full output of search has one entry per query, in input order:
\* the target of the final path that holds the query, the empty array for a
\* query emptied at some level, and never None.
Emptied == Range(Flatten(empty_paths))
C9_FullOutput ==
    Returned =>
        /\ Len(result) = Len(obj)
        /\ \A q \in QueryIds :
             /\ ~result[q].none
             /\ (q - 1) \in Emptied => result[q].target = <<>>
             /\ \A p \in 1..Len(paths) :
                  (q - 1) \in Range(paths[p].query) => result[q].target = paths[p].target
C9_Witness ==
    /\ Returned /\ Len(obj) = 2 /\ depth(bvh) >= 2
    /\ 0 \in Emptied
    /\ result[1].target = <<>>
    /\ result[2].target # <<>>

\* C10: search, query or nearest on an empty BVH (depth 0) raises no error
\* and returns M empty index arrays.
C10_EmptyIndexNoError ==
    (is_empty(bvh) /\ (predicate \in valid_predicates \/ predicate = "nearest")) =>
        /\ pc # "error"
        /\ Returned => \A q \in QueryIds : result[q] = [none |-> FALSE, target |-> <<>>]

\* C11: sort_tile_recurse applied to an empty collection returns a BVH of
\* depth 0 (is_empty true) whose leaf count is 0.
C11_EmptyBuildDepthZero ==
    (pc = "ready" /\ Len(egeoms) = 0 /\ page_size >= 1) =>
        (is_empty(bvh) /\ len(bvh) = 0)

\* C12: self-intersection round trip: querying the leaves' own envelopes
\* (mins <= maxs, degenerate ones included) with 'intersects' yields for
\* every leaf i a result that contains i.
C12_SelfIntersection ==
    (Returned /\ predicate = "intersects" /\ obj = egeoms) =>
        \A i \in QueryIds : (i - 1) \in Candidates(i)

\* C16: query with a name outside the six valid predicates raises the
\* invalid-predicate error before any level is searched and leaves the
\* envelopes and children of the BVH as they were.
DocumentedPredicates ==
    {"intersects", "contains", "within", "overlaps", "crosses", "touches"}
C16_InvalidPredicateRejected ==
    [][(pc = "ready" /\ predicate' \notin DocumentedPredicates \cup {"nearest"}) =>
          /\ pc' = "error"
          /\ err' = "ValueError: Invalid predicate"
          /\ bvh' = bvh
          /\ level' = 0 /\ paths' = <<>> /\ empty_paths' = <<>> /\ result' = <<>>]_vars
C16_Witness ==
    /\ pc = "error" /\ err = "ValueError: Invalid predicate"
    /\ predicate = "covers" /\ depth(bvh) >= 2 /\ level = 0

\* C14: the BVH returned by sort_tile_recurse has at most max_top_size
\* nodes at its top level, N envelopes at its bottom level, and the identity
\* column [0..N) as its leaf-level children table.
C14_TopWidthAndLeaves ==
    pc = "ready" =>
        /\ width(bvh) <= max_top_size
        /\ Len(bvh.envelopes[depth(bvh)]) = Len(egeoms)
        /\ Len(bvh.children[depth(bvh)]) = Len(egeoms)
        /\ \A i \in 1..Len(egeoms) :
               bvh.children[depth(bvh)][i] = <<[v |-> i - 1, m |-> FALSE]>>
C14_Witness ==
    /\ pc = "ready" /\ depth(bvh) >= 3 /\ max_top_size = 2 /\ width(bvh) = 2

\* C15: every row of every internal children matrix has at least one and at
\* most page_size unmasked child indices (stated of the tables built so far,
\* which are those of the BVH once it is returned).
InternalTables == {l \in 1..Len(children) : l >= 2}
C15_FanOut ==
    page_size >= 1 =>
        \A l \in InternalTables : \A i \in 1..Len(children[l]) :
            count(children[l][i]) >= 1 /\ count(children[l][i]) <= page_size
C15_Witness ==
    /\ pc = "ready" /\ depth(bvh) >= 3
    /\ \E l \in InternalTables : \E i, j \in 1..Len(children[l]) :
          count(children[l][i]) = page_size /\ count(children[l][j]) < page_size

\* C18: sort_tile_recurse called with a page_size that is not positive
\* reports an error for every input size and returns no BVH.
C18_PageSizeRejected ==
    page_size <= 0 => pc # "ready"

\* C17: each pairwise operation (intersects, distance, maxmindist,
\* bound_dist) applied to two vectors of different ndims fails with the
\* dimension-mismatch error and returns no result.
Called == pc \in {"returned", "error"} /\ op # "none"
SameDims == ndims(lhs[1]) = ndims(rhs[1])
C17_DimensionMismatchFails ==
    (Called /\ op \in {"intersects", "distance", "maxmindist", "bound_dist"}
            /\ ~SameDims) =>
        /\ pc = "error"
        /\ err = "ValueError: Incompatible number of dimensions"
        /\ out = <<>>

\* C19: for envelopes with mins <= maxs, 0 <= distance(A,B) <= maxmindist(A,B)
\* (squared values), for every pair [m,k].
Pairs == {<<m, k>> : m \in 1..Len(lhs), k \in 1..Len(rhs)}
C19_MinDistBelowMaxMinDist ==
    (pc = "returned" /\ SameDims) =>
        /\ op = "distance" =>
             \A mk \in Pairs :
                 /\ 0 <= out[mk[1]][mk[2]]
                 /\ out[mk[1]][mk[2]] <= maxmindist(lhs, rhs)[mk[1]][mk[2]]
        /\ op = "maxmindist" =>
             \A mk \in Pairs :
                 /\ 0 <= out[mk[1]][mk[2]]
                 /\ distance(lhs, rhs)[mk[1]][mk[2]] <= out[mk[1]][mk[2]]
C19_Witness ==
    /\ pc = "returned" /\ op = "distance" /\ SameDims /\ Len(lhs) = 2 /\ Len(rhs) = 2
    /\ out[1][1] > 0 /\ out[1][1] < maxmindist(lhs, rhs)[1][1]
    /\ out[2][2] = 0 /\ maxmindist(lhs, rhs)[2][2] > 0

\* C20 (as claimed): maxmindist(A,B)[m,k] is the sum over the dimensions of
\* g_d^2 with g_d = max(|A.mins[m,d] - B.maxs[k,d]|, |A.maxs[m,d] - B.mins[k,d]|)
\* (squared values).
PerDimFar(a, b) ==
    SumSeq(array([d \in 1..ndims(a) |->
        Sq(SetMax({Abs(a.mins[d] - b.maxs[d]), Abs(a.maxs[d] - b.mins[d])}))]))
C20_MaxMinDistPerDim ==
    (pc = "returned" /\ op = "maxmindist" /\ SameDims) =>
        \A mk \in Pairs : out[mk[1]][mk[2]] = PerDimFar(lhs[mk[1]], rhs[mk[2]])

\* C20 (amended): maxmindist(A,B)[m,k] is the least, over the 2D faces f of
\* A[m] and the 2D faces g of B[k], of the per-dimension value of the claim
\* taken between f and g, a face being the envelope with one dimension
\* collapsed onto its min or its max; it never exceeds the value claimed.
Face(e, i, upper) ==
    LET side == IF upper THEN e.maxs[i] ELSE e.mins[i]
    IN  Envelope([d \in 1..ndims(e) |-> IF d = i THEN side ELSE e.mins[d]],
                 [d \in 1..ndims(e) |-> IF d = i THEN side ELSE e.maxs[d]])
Faces(e) == {Face(e, i, u) : i \in 1..ndims(e), u \in BOOLEAN}
LeastOverFaces(a, b) == SetMin({PerDimFar(f, g) : f \in Faces(a), g \in Faces(b)})
C20_MaxMinDistOverFaces ==
    (pc = "returned" /\ op = "maxmindist" /\ SameDims) =>
        \A mk \in Pairs :
            /\ out[mk[1]][mk[2]] = LeastOverFaces(lhs[mk[1]], rhs[mk[2]])
            /\ out[mk[1]][mk[2]] <= PerDimFar(lhs[mk[1]], rhs[mk[2]])
C20_Witness ==
    /\ pc = "returned" /\ op = "maxmindist" /\ SameDims /\ ndims(lhs[1]) = 2
    /\ out[1][1] < PerDimFar(lhs[1], rhs[1])
    /\ out[1][1] > 0

\* C13: nearest(geom, right, sindex, n_neighbours = k) with 1 <= k <= |right|
\* returns exactly k (index, distance) pairs, in ascending distance order,
\* whose distances are the k smallest true distances from geom to the right
\* geometries.
TrueDistances == sort(array([i \in 1..Len(right) |-> right[i].dist]))
C13_ExactKnn ==
    pc = "neighbours" =>
        /\ Len(neighbours) = n_neighbours
        /\ \A i \in 1..Len(neighbours) :
               /\ neighbours[i][1] \in 0..(Len(right) - 1)
               /\ neighbours[i][2] = right[neighbours[i][1] + 1].dist
               /\ neighbours[i][2] = TrueDistances[i]
        /\ \A i, j \in 1..Len(neighbours) :
               i < j => neighbours[i][1] # neighbours[j][1]
C13_Witness ==
    /\ pc = "neighbours" /\ n_neighbours = 2 /\ Len(right) = 3 /\ ~sindex.isleaf
    /\ \E i \in {neighbours[1][1], neighbours[2][1]} :
       \E j \in 0..2 \ {neighbours[1][1], neighbours[2][1]} :
          BoundsDist(geom, right[j + 1].bounds) < BoundsDist(geom, right[i + 1].bounds)

\* C21 (as claimed): bound_dist(A,B) is the pair (distance(A,B),
\* maxmindist(A,B)).
C21_BoundDistIsMaxMinDist ==
    (pc = "returned" /\ op = "bound_dist") =>
        /\ out[1] = distance(lhs, rhs)
        /\ out[2] = maxmindist(lhs, rhs)

\* C21 (amended): bound_dist(A,B) is the pair (distance(A,B), maxdist(A,B));
\* its second component is never below maxmindist(A,B).
C21_BoundDistIsMaxDist ==
    (pc = "returned" /\ op = "bound_dist") =>
        /\ Len(out) = 2
        /\ out[1] = distance(lhs, rhs)
        /\ out[2] = maxdist(lhs, rhs)
        /\ \A mk \in Pairs :
               out[2][mk[1]][mk[2]] >= maxmindist(lhs, rhs)[mk[1]][mk[2]]
C21_Witness ==
    /\ pc = "returned" /\ op = "bound_dist" /\ Len(lhs) = 2 /\ Len(rhs) = 2
    /\ ndims(lhs[1]) = 2
    /\ out[1][1][1] > 0 /\ out[2][1][1] > maxmindist(lhs, rhs)[1][1]
    /\ out[1][2][2] = 0 /\ out[2][2][2] > 0

\* C22: for every masked G x k index matrix idx with at least one unmasked
\* cell per row, A.mergeby(idx) has G envelopes whose i-th mins (maxs) are
\* the componentwise minimum (maximum) of A.mins (A.maxs) over the unmasked
\* indices of row i.
UnmaskedOf(i) == {c.v : c \in {x \in Range(merge_indexes.rows[i]) : ~x.m}}
C22_MergeByCorrect ==
    op = "mergeby" =>
        /\ pc = "returned"
        /\ Len(out) = Len(merge_indexes.rows)
        /\ \A i \in 1..Len(out) : \A d \in 1..ndims(lhs[1]) :
               /\ out[i].mins[d] = SetMin({lhs[v + 1].mins[d] : v \in UnmaskedOf(i)})
               /\ out[i].maxs[d] = SetMax({lhs[v + 1].maxs[d] : v \in UnmaskedOf(i)})

\* C23: for N >= 1 leaves, page_size F >= 2 and max_top_size = 1, the depth
\* (number of levels) of the BVH returned by sort_tile_recurse differs from
\* ceil(log_F N) by at most 1.
CeilLog(F, n) == SetMin({k \in 0..n : Pow(F, k) >= n})
C23_DepthWithinOne ==
    (pc = "ready" /\ Len(egeoms) >= 1 /\ page_size >= 2 /\ max_top_size = 1) =>
        Abs(depth(bvh) - CeilLog(page_size, Len(egeoms))) <= 1

\* C24: chunk independence of query and nearest: the candidates a search
\* returns for a query are those of the search of that query alone (a chunk
\* of one), whatever other queries are in its batch; so every split of obj
\* in contiguous chunks gives every query the candidates of the whole search.
\* SoloSearch follows the one path of the query with 0-based index q from
\* level l on.
RECURSIVE SoloSearch(_, _, _, _)
SoloSearch(q, l, target, bnds) ==
    IF l > depth(bvh) THEN target
    ELSE LET path == QueryPath(<<q>>, target)
             envs == getitem(bvh.envelopes[l], target)
         IN  \* (each array is bound to its value once)
             CHOOSE r \in UNION {
                 {IF \E j \in 1..Len(pred[1]) : pred[1][j]
                  THEN SoloSearch(q, l + 1,
                           GroupPath(path, <<q>>, pred, <<0>>, bvh.children[l]).target,
                           newBounds)
                  ELSE <<>> :
                     pred \in {IF predicate = "nearest"
                               THEN NearestPred(<<q>>, envs, newBounds)
                               ELSE QueryPred(<<q>>, envs)}} :
                 newBounds \in {IF predicate = "nearest"
                                THEN NearestBounds(<<q>>, envs, bnds, knn)
                                ELSE bnds}} : TRUE
Alone(q) ==
    SoloSearch(q, 1, arange(width(bvh)),
               [i \in 1..Len(obj) |-> [j \in 1..knn |-> Inf]])
C24_ChunkIndependence ==
    Returned => \A q \in QueryIds : Candidates(q) = Range(Alone(q - 1))
C24_Witness ==
    /\ Returned /\ predicate = "nearest" /\ Len(obj) = 2 /\ depth(bvh) >= 2
    /\ Candidates(1) # {} /\ Candidates(2) # {} /\ Candidates(1) # Candidates(2)

\* C25: max_intersection(geom, right, sindex) for a line- or polygon-type
\* geom returns [(None, NaN)] when no right geometry is an intersects-
\* candidate (its Rect overlaps geom's) or the largest measure is zero;
\* otherwise it returns exactly the candidates whose measure is the largest
\* measure over all candidates, each once.
IntersectsCandidates ==
    {x \in 0..(Len(right) - 1) :
        Rect_intersects(Rect(geom[1], geom[2], geom[3], geom[4]), bgeom_of(x))}
LargestMeasure == SetMax({right[x + 1].measure : x \in IntersectsCandidates})
Occurrences(q, arrays) ==
    Cardinality({pi \in UNION {{<<p, i>> : i \in 1..Len(arrays[p])} : p \in 1..Len(arrays)} :
                    arrays[pi[1]][pi[2]] = q})
QueryArrays(ps) == [p \in 1..Len(ps) |-> ps[p].query]
C26_QueryPartition ==
    /\ (pc = "search" /\ cursor = 1) =>
          \A q \in 0..(Len(obj) - 1) :
              Occurrences(q, QueryArrays(paths) \o empty_paths) = 1
    /\ (pc = "done" /\ sparse) =>
          \A q \in 0..(Len(obj) - 1) :
              Occurrences(q, QueryArrays(result)) = 1
C26_Witness ==
    /\ pc = "done" /\ sparse /\ depth(bvh) >= 2 /\ Len(obj) = 2
    /\ Len(result) = 2
    /\ Len(result[1].query) = 1 /\ result[1].target # <<>>
    /\ Len(result[2].query) = 1 /\ result[2].target = <<>>

\* C27: in every pass of BVH.search over an active path, two surviving
\* queries are placed in the same next-level path if and only if their
\* predicate rows over the path's targets are identical, and the target of
\* that path is exactly the unmasked children of the target nodes whose
\* column is true in the row; a query with an all-false row is in none.
C27_GroupedByRow ==
    [][(pc = "search" /\ Len(empty_paths') = Len(empty_paths) + 1) =>
        \* (each array is bound to its value once; i, i1, i2 are positions
        \* in path.query)
        \A path \in {paths[cursor]} :
        \A envs \in {getitem(bvh.envelopes[level], path.target)} :
        \A rows \in {matrix([i \in 1..Len(path.query) |-> [j \in 1..Len(envs) |->
                        IF predicate = "nearest"
                        THEN DistancePair(obj[path.query[i] + 1], envs[j])
                                 <= SetMax(Range(bounds'[path.query[i] + 1]))
                        ELSE \A d \in 1..ndims(envs[j]) :
                                 _intersects_by_dims(obj[path.query[i] + 1], envs[j])[d]]])} :
        \A new \in {IF cursor < Len(paths)
                    THEN SubSeq(next_paths', Len(next_paths) + 1, Len(next_paths'))
                    ELSE SubSeq(paths', Len(next_paths) + 1, Len(paths'))} :
        \A PathsOf \in {array([i \in 1..Len(path.query) |->
                           {p \in 1..Len(new) : path.query[i] \in Range(new[p].query)}])} :
            LET surviving == {i \in 1..Len(path.query) : \E j \in 1..Len(envs) : rows[i][j]}
                Kids(i) == LET sel == BoolIndex(path.target, rows[i])
                           IN  Flatten([t \in 1..Len(sel) |->
                                   compressed(bvh.children[level][sel[t] + 1])])
            IN  /\ \A i \in surviving : Cardinality(PathsOf[i]) = 1
                /\ \A i \in (1..Len(path.query)) \ surviving : PathsOf[i] = {}
                /\ \A i1, i2 \in surviving :
                       (PathsOf[i1] = PathsOf[i2]) <=> (rows[i1] = rows[i2])
                /\ \A i \in surviving : \A p \in PathsOf[i] : new[p].target = Kids(i)]_vars
C27_Witness ==
    /\ pc = "search" /\ cursor = 1 /\ level = 3 /\ Len(obj) = 2
    /\ Len(paths) = 2
    /\ paths[1].target # <<>> /\ paths[2].target # <<>>
    /\ paths[1].target # paths[2].target

\* C28: sort_tile_recurse terminates for page_size >= 1 and
\* max_top_size >= 1 because each pass of its while loop appends a level
\* with strictly fewer nodes than the level it tiles.
C28_LevelsShrink ==
    [][(pc = "build" /\ Len(envel') = Len(envel) + 1
            /\ page_size >= 1 /\ max_top_size >= 1) =>
          Len(envel'[Len(envel')]) < Len(envel[Len(envel)])]_vars

\* C29: for every BVH built by sort_tile_recurse and every query, the index
\* array returned for the query by query or nearest holds no index twice.
C29_NoDuplicateIndex ==
    Returned =>
        \A q \in QueryIds :
            Cardinality(Range(result[q].target)) = Len(result[q].target)

\* C30: for envelopes with mins <= maxs, distance(A,B)[m,k] is the sum over
\* the dimensions of max(0, A.mins[m,d] - B.maxs[k,d], B.mins[k,d] - A.maxs[m,d])^2
\* (squared values), and it is 0 wherever intersects(A,B)[m,k] is true.
C30_DistanceIsBoxDistance ==
    (pc = "returned" /\ op = "distance") =>
        \A mk \in Pairs :
            /\ out[mk[1]][mk[2]] = TrueDist(lhs[mk[1]], rhs[mk[2]])
            /\ intersects(lhs, rhs)[mk[1]][mk[2]] => out[mk[1]][mk[2]] = 0
C30_Witness ==
    /\ pc = "returned" /\ op = "distance" /\ Len(lhs) = 2 /\ Len(rhs) = 2
    /\ ~intersects(lhs, rhs)[1][1]
    /\ out[1][1] > 0 /\ out[1][1] = TrueDist(lhs[1], rhs[1])
    /\ intersects(lhs, rhs)[2][2] /\ out[2][2] = 0
    /\ ~intersects(lhs, rhs)[1][2] /\ out[1][2] = 0

====
